---- MODULE Spec2Model ----
(***************************************************************************)
(* Model of deepxde/nn/pytorch/fnn.py: the fully-connected network FNN and *)
(* the parallel fully-connected network PFNN.                              *)
(*                                                                         *)
(* A layer-size entry is a record: isList says whether the Python value is *)
(* a list/tuple (sub holds its sizes) or an int (n holds it).  A linear    *)
(* layer is a record of the arguments torch.nn.Linear received and of the  *)
(* initializers applied to its weight and bias.  A tensor flowing through  *)
(* forward is a record of its feature width and of the chain of operations *)
(* that produced it from the input.                                        *)
(*                                                                         *)
(* Sizes are neuron counts (positive).  The caller-supplied transforms and *)
(* the activation are elementwise/opaque: they keep the feature width.     *)
(***************************************************************************)
EXTENDS Integers, Sequences, FiniteSets, TLC

\* ---- bounds of the model ------------------------------------------------
\* Longest layer_sizes drawn: [in, branched, branched, out] needs four entries.
MaxLen == 4
\* Neuron counts drawn for a size, and lengths drawn for a branched entry: both
\* fewer and more sub-layer sizes than outputs occur.
Sizes == {1, 2}
SubLayerCounts == {0, 1, 2}

SeqsOfLen(S, n) == [1..n -> S]

Scalar(n) == [isList |-> FALSE, n |-> n, sub |-> <<>>]
Branched(s) == [isList |-> TRUE, n |-> 0, sub |-> s]

Entries ==
    {Scalar(n) : n \in Sizes}
        \cup UNION {{Branched(s) : s \in SeqsOfLen(Sizes, c)} : c \in SubLayerCounts}

LayerSizeSpecs == UNION {SeqsOfLen(Entries, l) : l \in 0..MaxLen}

Classes == {"FNN", "PFNN"}
Initializers == {"Glorot normal", "zeros"}

\* ---- collaborators -------------------------------------------------------
\* config.real(torch): the global numeric precision.
config_real == "float64"
\* torch.nn.Linear(in_features, out_features, bias=True, device=None, dtype=None)
LinearDefaultBias == "True"
LinearDefaultDtype == "None"

isinstance_int(e) == ~e.isList
isinstance_list(e) == e.isList

Ok(ls) == [raised |-> FALSE, error |-> "", layers |-> ls]
Raise(msg) == [raised |-> TRUE, error |-> msg, layers |-> <<>>]

\* The layer constructor, parameters in the order of its signature.
Linear(in_features, out_features, bias, dtype) ==
    [in_features |-> in_features,
     out_features |-> out_features,
     bias_arg |-> bias,
     dtype |-> dtype,
     weight |-> [shape |-> <<out_features, in_features>>, init |-> <<>>],
     bias |-> [shape |-> <<out_features>>, init |-> <<>>]]

\* An initializer is an in-place operation on one tensor.
apply_initializer(name, tensor) == [tensor EXCEPT !.init = Append(@, name)]

Shared(linear) == [isList |-> FALSE, subs |-> <<linear>>]
ModuleList(linears) == [isList |-> TRUE, subs |-> linears]

\* ---- FNN.initialize_layers ----------------------------------------------
\* One iteration's layer: lines 23-29.
FNN_make_linear(n_in, n_out, weight_initializer, bias_initializer) ==
    LET linear == Linear(n_in, n_out, LinearDefaultBias, config_real)
    IN  [linear EXCEPT !.weight = apply_initializer(weight_initializer, @),
                       !.bias = apply_initializer(bias_initializer, @)]

RECURSIVE FNN_layers_from(_, _, _, _, _)
FNN_layers_from(layer_sizes, i, linears, weight_initializer, bias_initializer) ==
    IF i > Len(layer_sizes)
    THEN Ok(linears)
    ELSE IF isinstance_list(layer_sizes[i - 1]) \/ isinstance_list(layer_sizes[i])
         THEN Raise("TypeError")
         ELSE FNN_layers_from(
                  layer_sizes, i + 1,
                  Append(linears,
                         Shared(FNN_make_linear(layer_sizes[i - 1].n, layer_sizes[i].n,
                                                weight_initializer, bias_initializer))),
                  weight_initializer, bias_initializer)

FNN_initialize_layers(layer_sizes, weight_initializer, bias_initializer) ==
    FNN_layers_from(layer_sizes, 2, <<>>, weight_initializer, bias_initializer)

\* ---- PFNN.initialize_layers ---------------------------------------------
make_linear_no_bias_init(n_input, n_output, weight_initializer, bias_initializer) ==
    LET linear == Linear(n_input, n_output, config_real, LinearDefaultDtype)
    IN  [linear EXCEPT !.weight = apply_initializer(weight_initializer, @)]
make_linear(n_input, n_output, weight_initializer, bias_initializer) ==
    LET linear == Linear(n_input, n_output, config_real, LinearDefaultDtype)
    IN  [linear EXCEPT !.weight = apply_initializer(weight_initializer, @),
                       !.bias = apply_initializer(bias_initializer, @)]

sub_layer_count_unchecked(curr_layer_size, n_output) == TRUE
\* Line 81.
sub_layer_count_ok(curr_layer_size, n_output) == Len(curr_layer_size.sub) = n_output

branched_from_branched_first(prev_layer_size, curr_layer_size, n_output, wi, bi) ==
    IF Len(prev_layer_size.sub) < n_output \/ Len(curr_layer_size.sub) < n_output
    THEN Raise("IndexError")
    ELSE Ok(<<ModuleList([j \in 1..n_output |->
                 make_linear(prev_layer_size.sub[1], curr_layer_size.sub[j], wi, bi)])>>)
\* Lines 86-93: [8, 8, 8] -> [16, 16, 16].
branched_from_branched(prev_layer_size, curr_layer_size, n_output, wi, bi) ==
    IF Len(prev_layer_size.sub) < n_output \/ Len(curr_layer_size.sub) < n_output
    THEN Raise("IndexError")
    ELSE Ok(<<ModuleList([j \in 1..n_output |->
                 make_linear(prev_layer_size.sub[j], curr_layer_size.sub[j], wi, bi)])>>)

\* Lines 96-103: 64 -> [8, 8, 8].
branched_from_shared(prev_layer_size, curr_layer_size, n_output, wi, bi) ==
    IF Len(curr_layer_size.sub) < n_output
    THEN Raise("IndexError")
    ELSE Ok(<<ModuleList([j \in 1..n_output |->
                 make_linear(prev_layer_size.n, curr_layer_size.sub[j], wi, bi)])>>)

shared_from_any(prev_layer_size, curr_layer_size, wi, bi) ==
    IF ~isinstance_int(prev_layer_size)
    THEN Raise("TypeError")
    ELSE Ok(<<Shared(make_linear(prev_layer_size.n, curr_layer_size.n, wi, bi))>>)
\* Lines 105-108: 64 -> 64.
shared_from_shared(prev_layer_size, curr_layer_size, wi, bi) ==
    IF ~isinstance_int(prev_layer_size)
    THEN Raise("cannot rejoin parallel subnetworks after splitting")
    ELSE Ok(<<Shared(make_linear(prev_layer_size.n, curr_layer_size.n, wi, bi))>>)

\* One iteration of the loop of lines 74-108.
PFNN_hidden_layer(prev_layer_size, curr_layer_size, n_output, wi, bi) ==
    IF isinstance_list(curr_layer_size)
    THEN IF ~sub_layer_count_ok(curr_layer_size, n_output)
         THEN Raise("number of sub-layers should equal number of network outputs")
         ELSE IF isinstance_list(prev_layer_size)
              THEN branched_from_branched(prev_layer_size, curr_layer_size, n_output, wi, bi)
              ELSE branched_from_shared(prev_layer_size, curr_layer_size, n_output, wi, bi)
    ELSE shared_from_shared(prev_layer_size, curr_layer_size, wi, bi)

output_layers_wide(prev_layer_size, n_output, wi, bi) ==
    IF isinstance_list(prev_layer_size)
    THEN IF Len(prev_layer_size.sub) < n_output
         THEN Raise("IndexError")
         ELSE Ok(<<ModuleList([j \in 1..n_output |->
                      make_linear(prev_layer_size.sub[j], n_output, wi, bi)])>>)
    ELSE Ok(<<Shared(make_linear(prev_layer_size.n, n_output, wi, bi))>>)
\* Lines 110-118.
PFNN_output_layers(prev_layer_size, n_output, wi, bi) ==
    IF isinstance_list(prev_layer_size)
    THEN IF Len(prev_layer_size.sub) < n_output
         THEN Raise("IndexError")
         ELSE Ok(<<ModuleList([j \in 1..n_output |->
                      make_linear(prev_layer_size.sub[j], 1, wi, bi)])>>)
    ELSE Ok(<<Shared(make_linear(prev_layer_size.n, n_output, wi, bi))>>)

RECURSIVE PFNN_layers_from(_, _, _, _, _)
PFNN_layers_from(layer_sizes, i, layers, wi, bi) ==
    LET n_output == layer_sizes[Len(layer_sizes)].n
    IN  IF i > Len(layer_sizes) - 1
        THEN LET out == PFNN_output_layers(layer_sizes[Len(layer_sizes) - 1], n_output, wi, bi)
             IN  IF out.raised THEN out ELSE Ok(layers \o out.layers)
        ELSE LET made == PFNN_hidden_layer(layer_sizes[i - 1], layer_sizes[i], n_output, wi, bi)
             IN  IF made.raised
                 THEN made
                 ELSE PFNN_layers_from(layer_sizes, i + 1, layers \o made.layers, wi, bi)

PFNN_initialize_layers(layer_sizes, weight_initializer, bias_initializer) ==
    IF ~(Len(layer_sizes) > 1)
    THEN Raise("must specify input and output sizes")
    ELSE IF ~isinstance_int(layer_sizes[1])
    THEN Raise("input size must be integer")
    ELSE IF ~isinstance_int(layer_sizes[Len(layer_sizes)])
    THEN Raise("output size must be integer")
    ELSE PFNN_layers_from(layer_sizes, 2, <<>>, weight_initializer, bias_initializer)

\* ---- tensors in forward --------------------------------------------------
InputTransformOp == [op |-> "input_transform", stage |-> 0, sub |-> 0, args |-> <<>>]
ActivationOp == [op |-> "activation", stage |-> 0, sub |-> 0, args |-> <<>>]
\* sub = 0 names a shared layer, sub = j the j-th sub-layer of a branched stage.
LinearOp(stage, sub) == [op |-> "linear", stage |-> stage, sub |-> sub, args |-> <<>>]
CatOp(chains) == [op |-> "cat", stage |-> 0, sub |-> 0, args |-> chains]
OutputTransformOp(first_arg) ==
    [op |-> "output_transform", stage |-> 0, sub |-> 0, args |-> <<first_arg.ops>>]

Tensor(width) == [width |-> width, ops |-> <<>>]
One(t) == [isList |-> FALSE, vals |-> <<t>>]
Many(ts) == [isList |-> TRUE, vals |-> ts]

Good(v) == [ok |-> TRUE, val |-> v]
Bad(v) == [ok |-> FALSE, val |-> v]

input_transform(t) == [t EXCEPT !.ops = Append(@, InputTransformOp)]
activation(t) == [t EXCEPT !.ops = Append(@, ActivationOp)]
output_transform(inputs_, t) == [t EXCEPT !.ops = Append(@, OutputTransformOp(inputs_))]

\* linear(x): a matrix product, defined when the widths agree.
call_linear(f, stage, sub, t) ==
    IF t.width = f.in_features
    THEN Good([width |-> f.out_features, ops |-> Append(t.ops, LinearOp(stage, sub))])
    ELSE Bad(t)

Min(a, b) == IF a < b THEN a ELSE b
zip_reversed(fs, xs) ==
    LET m == Min(Len(fs), Len(xs)) IN [j \in 1..m |-> <<fs[j], xs[m + 1 - j], j>>]
\* Python's zip: pairs by index, as long as the shorter of the two.
zip(fs, xs) == [j \in 1..Min(Len(fs), Len(xs)) |-> <<fs[j], xs[j], j>>]

RECURSIVE SumWidths(_)
SumWidths(ts) == IF ts = <<>> THEN 0 ELSE ts[1].width + SumWidths(Tail(ts))

\* torch.cat(tensors, dim=1)
cat(ts) ==
    IF ts = <<>>
    THEN Bad(Tensor(0))
    ELSE Good([width |-> SumWidths(ts), ops |-> <<CatOp([j \in 1..Len(ts) |-> ts[j].ops])>>])

AllOk(rs) == \A j \in 1..Len(rs) : rs[j].ok

\* ---- FNN.forward ---------------------------------------------------------
\* Line 36.
FNN_hidden(linear, stage, xx) ==
    LET r == call_linear(linear.subs[1], stage, 0, xx.vals[1])
    IN  IF r.ok THEN Good(One(activation(r.val))) ELSE Bad(xx)

FNN_last_activated(linears_, xx) ==
    IF linears_ = <<>>
    THEN Bad(xx)
    ELSE LET r == call_linear(linears_[Len(linears_)].subs[1], Len(linears_), 0, xx.vals[1])
         IN  IF r.ok THEN Good(One(activation(r.val))) ELSE Bad(xx)
\* Line 37.
FNN_last(linears_, xx) ==
    IF linears_ = <<>>
    THEN Bad(xx)
    ELSE LET r == call_linear(linears_[Len(linears_)].subs[1], Len(linears_), 0, xx.vals[1])
         IN  IF r.ok THEN Good(One(r.val)) ELSE Bad(xx)

\* ---- PFNN.forward --------------------------------------------------------
\* Lines 127-133.
PFNN_hidden(layer, stage, xx) ==
    IF layer.isList
    THEN IF xx.isList
         THEN LET ps == zip(layer.subs, xx.vals)
                  rs == [j \in 1..Len(ps) |-> call_linear(ps[j][1], stage, ps[j][3], ps[j][2])]
              IN  IF AllOk(rs)
                  THEN Good(Many([j \in 1..Len(rs) |-> activation(rs[j].val)]))
                  ELSE Bad(xx)
         ELSE LET rs == [j \in 1..Len(layer.subs) |->
                            call_linear(layer.subs[j], stage, j, xx.vals[1])]
              IN  IF AllOk(rs)
                  THEN Good(Many([j \in 1..Len(rs) |-> activation(rs[j].val)]))
                  ELSE Bad(xx)
    ELSE IF xx.isList
         THEN Bad(xx)
         ELSE LET r == call_linear(layer.subs[1], stage, 0, xx.vals[1])
              IN  IF r.ok THEN Good(One(activation(r.val))) ELSE Bad(xx)

\* Lines 136-139.
PFNN_last(layers_, xx) ==
    LET last == layers_[Len(layers_)]
        stage == Len(layers_)
    IN  IF xx.isList
        THEN IF ~last.isList
             THEN Bad(xx)
             ELSE LET ps == zip(last.subs, xx.vals)
                      rs == [j \in 1..Len(ps) |->
                                call_linear(ps[j][1], stage, ps[j][3], ps[j][2])]
                      c == cat([j \in 1..Len(rs) |-> rs[j].val])
                  IN  IF AllOk(rs) /\ c.ok THEN Good(One(c.val)) ELSE Bad(xx)
        ELSE IF last.isList
             THEN Bad(xx)
             ELSE LET r == call_linear(last.subs[1], stage, 0, xx.vals[1])
                  IN  IF r.ok THEN Good(One(r.val)) ELSE Bad(xx)

\* ---- state ---------------------------------------------------------------
VARIABLES
    cls,                \* which class is being constructed
    layer_sizes,        \* constructor argument
    kernel_initializer, \* constructor argument
    pc,                 \* "init", "raised", "built", "hidden", "output_transform", "done", "failed"
    linears,            \* FNN: self.linears
    layers,             \* PFNN: self.layers
    error,              \* the message of the error construction raised
    has_input_transform,  \* self._input_transform is not None
    has_output_transform, \* self._output_transform is not None
    inputs,             \* forward's argument
    x,                  \* forward's local
    k                   \* forward's position in the loop over the hidden stages

vars == <<cls, layer_sizes, kernel_initializer, pc, linears, layers, error,
          has_input_transform, has_output_transform, inputs, x, k>>

Init ==
    /\ cls \in Classes
    /\ layer_sizes \in LayerSizeSpecs
    /\ kernel_initializer \in Initializers
    /\ pc = "init"
    /\ linears = <<>>
    /\ layers = <<>>
    /\ error = ""
    /\ has_input_transform = FALSE
    /\ has_output_transform = FALSE
    /\ inputs = Tensor(0)
    /\ x = One(Tensor(0))
    /\ k = 0

\* FNN.__init__, lines 12-17, with FNN.initialize_layers.
FNN_init ==
    /\ pc = "init"
    /\ cls = "FNN"
    /\ LET made == FNN_initialize_layers(layer_sizes, kernel_initializer, "zeros")
       IN  /\ pc' = IF made.raised THEN "raised" ELSE "built"
           /\ error' = made.error
           /\ linears' = made.layers
    /\ UNCHANGED <<cls, layer_sizes, kernel_initializer, layers,
                   has_input_transform, has_output_transform, inputs, x, k>>

\* The inherited __init__ with PFNN.initialize_layers.
PFNN_init ==
    /\ pc = "init"
    /\ cls = "PFNN"
    /\ LET made == PFNN_initialize_layers(layer_sizes, kernel_initializer, "zeros")
       IN  /\ pc' = IF made.raised THEN "raised" ELSE "built"
           /\ error' = made.error
           /\ layers' = made.layers
    /\ UNCHANGED <<cls, layer_sizes, kernel_initializer, linears,
                   has_input_transform, has_output_transform, inputs, x, k>>

\* Lines 32-34 and 122-124: the call, with whatever transforms the caller set.
forward_enter(self_cls) ==
    /\ pc = "built"
    /\ cls = self_cls
    /\ \E w \in Sizes, it \in BOOLEAN, ot \in BOOLEAN :
        /\ inputs' = Tensor(w)
        /\ has_input_transform' = it
        /\ has_output_transform' = ot
        /\ x' = IF it THEN One(input_transform(Tensor(w))) ELSE One(Tensor(w))
    /\ k' = 1
    /\ pc' = "hidden"
    /\ UNCHANGED <<cls, layer_sizes, kernel_initializer, linears, layers, error>>

FNN_forward_enter == forward_enter("FNN")
PFNN_forward_enter == forward_enter("PFNN")

\* Lines 35-36: one iteration over self.linears[:-1].
FNN_forward_hidden ==
    /\ pc = "hidden"
    /\ cls = "FNN"
    /\ k <= Len(linears) - 1
    /\ LET r == FNN_hidden(linears[k], k, x)
       IN  /\ x' = r.val
           /\ pc' = IF r.ok THEN "hidden" ELSE "failed"
    /\ k' = k + 1
    /\ UNCHANGED <<cls, layer_sizes, kernel_initializer, linears, layers, error,
                   has_input_transform, has_output_transform, inputs>>

\* Line 37.
FNN_forward_last ==
    /\ pc = "hidden"
    /\ cls = "FNN"
    /\ k > Len(linears) - 1
    /\ LET r == FNN_last(linears, x)
       IN  /\ x' = r.val
           /\ pc' = IF r.ok THEN "output_transform" ELSE "failed"
    /\ UNCHANGED <<cls, layer_sizes, kernel_initializer, linears, layers, error,
                   has_input_transform, has_output_transform, inputs, k>>

\* Lines 126-133: one iteration over self.layers[:-1].
PFNN_forward_hidden ==
    /\ pc = "hidden"
    /\ cls = "PFNN"
    /\ k <= Len(layers) - 1
    /\ LET r == PFNN_hidden(layers[k], k, x)
       IN  /\ x' = r.val
           /\ pc' = IF r.ok THEN "hidden" ELSE "failed"
    /\ k' = k + 1
    /\ UNCHANGED <<cls, layer_sizes, kernel_initializer, linears, layers, error,
                   has_input_transform, has_output_transform, inputs>>

\* Lines 135-139.
PFNN_forward_last ==
    /\ pc = "hidden"
    /\ cls = "PFNN"
    /\ k > Len(layers) - 1
    /\ LET r == PFNN_last(layers, x)
       IN  /\ x' = r.val
           /\ pc' = IF r.ok THEN "output_transform" ELSE "failed"
    /\ UNCHANGED <<cls, layer_sizes, kernel_initializer, linears, layers, error,
                   has_input_transform, has_output_transform, inputs, k>>

\* Lines 38-40 and 141-143.
forward_return(self_cls) ==
    /\ pc = "output_transform"
    /\ cls = self_cls
    /\ x' = IF has_output_transform THEN One(output_transform(inputs, x.vals[1])) ELSE x
    /\ pc' = "done"
    /\ UNCHANGED <<cls, layer_sizes, kernel_initializer, linears, layers, error,
                   has_input_transform, has_output_transform, inputs, k>>

FNN_forward_return == forward_return("FNN")
PFNN_forward_return == forward_return("PFNN")

Next ==
    \/ FNN_init
    \/ PFNN_init
    \/ FNN_forward_enter
    \/ FNN_forward_hidden
    \/ FNN_forward_last
    \/ FNN_forward_return
    \/ PFNN_forward_enter
    \/ PFNN_forward_hidden
    \/ PFNN_forward_last
    \/ PFNN_forward_return

Spec == Init /\ [][Next]_vars

\* ---- vocabulary of the properties ----------------------------------------
Constructed == pc \notin {"init", "raised"}
NumEntries == Len(layer_sizes)
OutputSize == layer_sizes[NumEntries].n
Network == IF cls = "FNN" THEN linears ELSE layers
NumStages == Len(Network)
InteriorPositions == 2..(NumEntries - 1)
RejoinMessage == "cannot rejoin parallel subnetworks after splitting"
CountMessage == "number of sub-layers should equal number of network outputs"

\* The layer of stage s that serves branch j.
LayerOf(s, j) == IF Network[s].isList THEN Network[s].subs[j] ELSE Network[s].subs[1]
SubIndexOf(s, j) == IF Network[s].isList THEN j ELSE 0
Shape(linear) == <<linear.in_features, linear.out_features>>
LinearsOfNetwork ==
    UNION {{Network[s].subs[j] : j \in 1..Len(Network[s].subs)} : s \in 1..NumStages}

\* C1: whenever forward returns, the width of the result is layer_sizes[-1]; a
\* PFNN whose last hidden entry is branched ends in layer_sizes[-1] sub-layers of
\* output width 1, any other network in one layer of output width layer_sizes[-1].
C1_OutputWidth ==
    /\ pc \in {"output_transform", "done"} =>
           /\ ~x.isList
           /\ x.vals[1].width = OutputSize
    /\ (Constructed /\ cls = "PFNN") =>
           LET last == layers[Len(layers)]
           IN  IF layer_sizes[NumEntries - 1].isList
               THEN /\ last.isList
                    /\ Len(last.subs) = OutputSize
                    /\ \A j \in 1..Len(last.subs) : last.subs[j].out_features = 1
               ELSE /\ ~last.isList
                    /\ last.subs[1].out_features = OutputSize
    /\ (Constructed /\ cls = "FNN" /\ NumEntries >= 2) =>
           /\ ~linears[Len(linears)].isList
           /\ linears[Len(linears)].subs[1].out_features = OutputSize

C1_Witness ==
    /\ pc = "done"
    /\ cls = "PFNN"
    /\ layer_sizes[NumEntries - 1].isList
    /\ OutputSize = 2
    /\ x.vals[1].width = 2

\* C2: a PFNN built from an all-scalar specification is accepted exactly when the
\* FNN is, and holds the same linear layers as the FNN built from it.
AllScalar == \A i \in 1..NumEntries : isinstance_int(layer_sizes[i])
C2_ScalarPFNNSameAsFNN ==
    (cls = "PFNN" /\ AllScalar /\ pc # "init") =>
        LET fnn == FNN_initialize_layers(layer_sizes, kernel_initializer, "zeros")
        IN  /\ (pc = "raised") = fnn.raised
            /\ layers = fnn.layers

\* C3: a PFNN specification with a scalar interior entry right after a branched
\* entry is never constructed; construction raises, with the rejoin message when
\* no earlier check fails; in a constructed PFNN every interior entry after a
\* branched one is branched.
RejoinsAt(i) == isinstance_int(layer_sizes[i]) /\ isinstance_list(layer_sizes[i - 1])
Rejoins == \E i \in InteriorPositions : RejoinsAt(i)
RejoinIsFirstFault ==
    /\ isinstance_int(layer_sizes[1])
    /\ isinstance_int(layer_sizes[NumEntries])
    /\ \E i \in InteriorPositions :
          /\ RejoinsAt(i)
          /\ \A h \in 2..(i - 1) :
                isinstance_list(layer_sizes[h]) => Len(layer_sizes[h].sub) = OutputSize
          /\ \A h \in 2..(i - 1) : ~RejoinsAt(h)
C3_NoRejoin ==
    cls = "PFNN" =>
        /\ (Rejoins /\ pc # "init") => pc = "raised"
        /\ (Rejoins /\ pc = "raised" /\ RejoinIsFirstFault) => error = RejoinMessage
        /\ Constructed =>
              \A h \in InteriorPositions : \A i \in InteriorPositions :
                  (h < i /\ isinstance_list(layer_sizes[h])) => isinstance_list(layer_sizes[i])
        /\ Constructed =>
              \A s \in 1..NumStages : \A t \in 1..NumStages :
                  (s < t /\ layers[s].isList) => layers[t].isList

C3_Witness ==
    /\ cls = "PFNN"
    /\ Rejoins
    /\ pc = "raised"
    /\ error = RejoinMessage

\* C4: a PFNN specification with a branched entry whose number of sub-layer sizes
\* differs from layer_sizes[-1] is never constructed; in a constructed PFNN every
\* branched stage, the output stage included, has layer_sizes[-1] sub-layers.
CountMismatch ==
    \E i \in 1..NumEntries :
        /\ isinstance_list(layer_sizes[i])
        /\ \/ isinstance_list(layer_sizes[NumEntries])
           \/ Len(layer_sizes[i].sub) # OutputSize
C4_BranchCount ==
    cls = "PFNN" =>
        /\ (CountMismatch /\ pc # "init") => pc = "raised"
        /\ Constructed =>
              \A s \in 1..NumStages :
                  layers[s].isList => Len(layers[s].subs) = OutputSize

C4_Witness ==
    /\ cls = "PFNN"
    /\ CountMismatch
    /\ pc = "raised"
    /\ error = CountMessage

\* C5: a specification with fewer than two entries, a non-integer input or
\* output size, a mismatched sub-layer count or a rejoin is rejected at
\* construction, and forward of a constructed network on an input of the
\* declared width never fails.
Misconfigured ==
    \/ NumEntries < 2
    \/ isinstance_list(layer_sizes[1])
    \/ isinstance_list(layer_sizes[NumEntries])
    \/ CountMismatch
    \/ Rejoins
C5_FailuresAtConstruction ==
    /\ (Misconfigured /\ pc # "init") => pc = "raised"
    /\ pc = "failed" => (NumEntries >= 1 /\ inputs.width # layer_sizes[1].n)

\* C6: forward applies the input transform first (once, only if set), then each
\* stage but the last followed by the activation, then the last stage without
\* activation, then the output transform (once, only if set) on the original
\* input and the last stage's output.
Kinds(chain) == [n \in 1..Len(chain) |-> <<chain[n].op, chain[n].stage>>]
Prefix == IF has_input_transform THEN <<<<"input_transform", 0>>>> ELSE <<>>
\* stage 1, activation, stage 2, activation, ..., up to `activated` stages,
\* then the unactivated last stage when `closed`.
StagePattern(activated, closed) ==
    [n \in 1..(2 * activated + (IF closed THEN 1 ELSE 0)) |->
        IF n % 2 = 1 THEN <<"linear", (n + 1) \div 2>> ELSE <<"activation", 0>>]
Suffix == IF has_output_transform THEN <<<<"output_transform", 0>>>> ELSE <<>>
C6_ForwardOrder ==
    /\ pc = "hidden" =>
           \A j \in 1..Len(x.vals) :
               Kinds(x.vals[j].ops) = Prefix \o StagePattern(k - 1, FALSE)
    /\ pc \in {"output_transform", "done"} =>
           LET ops == x.vals[1].ops
               post == IF pc = "done" THEN Suffix ELSE <<>>
           IN  IF ops # <<>> /\ ops[1].op = "cat"
               THEN /\ Kinds(ops) = <<<<"cat", 0>>>> \o post
                    /\ \A j \in 1..Len(ops[1].args) :
                           Kinds(ops[1].args[j]) = Prefix \o StagePattern(NumStages - 1, TRUE)
               ELSE Kinds(ops) = Prefix \o StagePattern(NumStages - 1, TRUE) \o post
    /\ (pc = "done" /\ has_output_transform) =>
           x.vals[1].ops[Len(x.vals[1].ops)].args = <<inputs.ops>>
    /\ pc = "done" => inputs.ops = <<>>

C6_Witness ==
    /\ pc = "done"
    /\ cls = "FNN"
    /\ NumStages = 3
    /\ has_input_transform
    /\ has_output_transform

\* C7: a constructed PFNN has len(layer_sizes)-1 stages; the stage of interior
\* position i is one shared layer of shape (sizes[i-1], sizes[i]) after a scalar,
\* or n_output sub-layers of shape (sizes[i-1], sizes[i][j]) at a split, or of
\* shape (sizes[i-1][j], sizes[i][j]) after a branched entry; along each branch
\* every layer's input width is the output width of the layer before it.
C7_TransitionRules ==
    (cls = "PFNN" /\ Constructed) =>
        /\ Len(layers) = NumEntries - 1
        /\ \A i \in InteriorPositions :
              LET prev == layer_sizes[i - 1]
                  curr == layer_sizes[i]
                  stage == layers[i - 1]
              IN  IF isinstance_int(curr)
                  THEN /\ isinstance_int(prev)
                       /\ ~stage.isList
                       /\ Len(stage.subs) = 1
                       /\ Shape(stage.subs[1]) = <<prev.n, curr.n>>
                  ELSE /\ stage.isList
                       /\ Len(stage.subs) = OutputSize
                       /\ \A j \in 1..Len(stage.subs) :
                              Shape(stage.subs[j]) =
                                  <<IF isinstance_int(prev) THEN prev.n ELSE prev.sub[j],
                                    curr.sub[j]>>
        /\ \A j \in 1..OutputSize : \A s \in 2..NumStages :
              LayerOf(s, j).in_features = LayerOf(s - 1, j).out_features

C7_Witness ==
    /\ cls = "PFNN"
    /\ pc = "built"
    /\ NumEntries = 4
    /\ isinstance_int(layer_sizes[1])
    /\ layer_sizes[2].isList /\ layer_sizes[2].sub = <<1, 2>>
    /\ layer_sizes[3].isList /\ layer_sizes[3].sub = <<2, 1>>

\* C8: in PFNN.forward, after the first branched stage the value is a list of
\* n_output branch values until the output stage; a shared stage is never
\* applied to a list; every pairing is index to index and complete; branch j's
\* value, and column j of the result, come from the shared layers before the
\* split and from sub-layers j only.
LinearOps(chain) == SelectSeq(chain, LAMBDA o : o.op = "linear")
BranchChain(j, upto) == [s \in 1..upto |-> LinearOp(s, SubIndexOf(s, j))]
C8_BranchesIndependent ==
    cls = "PFNN" =>
        /\ pc = "hidden" =>
              /\ x.isList = (k > 1 /\ layers[k - 1].isList)
              /\ x.isList => Len(x.vals) = OutputSize
              /\ x.isList => /\ layers[k].isList
                             /\ Len(layers[k].subs) = Len(x.vals)
              /\ x.isList =>
                    \A j \in 1..Len(x.vals) :
                        LinearOps(x.vals[j].ops) = BranchChain(j, k - 1)
        /\ (pc \in {"output_transform", "done"} /\ layers[NumStages].isList) =>
              LET parts == x.vals[1].ops[1].args
              IN  /\ x.vals[1].ops[1].op = "cat"
                  /\ Len(parts) = OutputSize
                  /\ \A j \in 1..Len(parts) :
                         LinearOps(parts[j]) = BranchChain(j, NumStages)
        /\ pc = "failed" => ~x.isList

C8_Witness ==
    /\ cls = "PFNN"
    /\ pc = "done"
    /\ NumEntries = 4
    /\ layer_sizes[2].isList
    /\ layer_sizes[3].isList
    /\ OutputSize = 2

\* C9: every linear layer of a constructed network has had the configured
\* initializer applied once to its weight and "zeros" once to its bias, and
\* nothing else; FNN holds one layer per consecutive pair of sizes.
Initialized(linear) ==
    /\ linear.weight.init = <<kernel_initializer>>
    /\ linear.bias.init = <<"zeros">>
    /\ linear.weight.shape = <<linear.out_features, linear.in_features>>
    /\ linear.bias.shape = <<linear.out_features>>
C9_EveryLayerInitialized ==
    Constructed =>
        /\ \A linear \in LinearsOfNetwork : Initialized(linear)
        /\ cls = "FNN" =>
              /\ NumEntries >= 1 => Len(linears) = NumEntries - 1
              /\ NumEntries = 0 => Len(linears) = 0
              /\ \A s \in 1..Len(linears) : Len(linears[s].subs) = 1
        /\ cls = "PFNN" =>
              /\ Len(layers) = NumEntries - 1
              /\ \A s \in 1..Len(layers) :
                    Len(layers[s].subs) = IF layers[s].isList THEN OutputSize ELSE 1

C9_Witness ==
    /\ pc = "built"
    /\ cls = "PFNN"
    /\ kernel_initializer = "Glorot normal"
    /\ NumEntries = 4
    /\ layer_sizes[3].isList
    /\ OutputSize = 2

\* C10: every linear layer of a constructed network received config.real as its
\* dtype argument and no bias argument.
C10_DtypeArgument ==
    Constructed =>
        \A linear \in LinearsOfNetwork :
            /\ linear.dtype = config_real
            /\ linear.bias_arg = LinearDefaultBias

====
